---- MODULE Spec2Model ----
(***************************************************************************)
(* State-machine model of trainGraph.py: the driver script that seeds the  *)
(* random generator, loads the corpus, dispatches on the model variation,  *)
(* shuffles, builds the network, trains or loads the weights and predicts  *)
(* the sentiment of one sentence.                                          *)
(*                                                                         *)
(* The script is straight-line code; pc is the position in it.  Calls into *)
(* the framework (fit, save_weights, load_weights, predict, ...) are       *)
(* recorded, in order, in the history variable events.                     *)
(***************************************************************************)
EXTENDS Integers, Sequences, FiniteSets, TLC

\* ------------------------------------------------------------------ bounds
\* Scaled-down value of sequence_length (56 at trainGraph.py:67).
sequence_length == 2
\* Longest raw sentence, in characters.
MaxSentenceLen == 4
\* Largest corpus size len(y).
MaxSamples == 3
\* Number of states of the global numpy generator.
RngMod == 16
\* Probabilities are the multiples k / (2 * ProbRes), k in 0 .. 2 * ProbRes.
ProbRes == 2

\* --------------------------------------------------------------- constants
\* np.random.seed(2)
random_seed == 2

\* ------------------------------------------------------------------- state
VARIABLES
    pc,               \* position in the script
    model_variation,  \* line 63
    action,           \* ACTION, line 82
    weights_exists,   \* os.path.exists(weights_file)
    weights_at_startup, \* history: the file was there when the run began
    w2v_cached,       \* the embedding trainer's cache file exists
    rng,              \* state of the global numpy random generator
    vocabulary,       \* dict token -> index
    n_samples,        \* len(y)
    x_repr,           \* what x holds: "indices" or "vectors"
    shuffle_indices,  \* line 104
    model_input,      \* what the built model takes as input
    model_weights,    \* "none", "initial", "loaded", "trained"
    sentence,         \* raw sentence, a sequence of characters
    processed_sentence, \* format_sentence's cleaned token list
    new_sentence,     \* format_sentence's padded token list
    v_list,           \* format_sentence's result, a batch of index rows
    probs,            \* model.predict's result
    mood,             \* the printed classification
    error,            \* the exception that ended the run
    events            \* framework calls made so far, in order

vars == <<pc, model_variation, action, weights_exists, w2v_cached, rng,
          vocabulary, n_samples, x_repr, shuffle_indices, model_input,
          model_weights, sentence, processed_sentence, new_sentence, v_list, probs, mood, error,
          events, weights_at_startup>>

\* ------------------------------------------------------------ input domains
Variations == {"CNN-rand", "CNN-non-static", "CNN-static", "CNN-multichannel"}
Actions == {"predict", "train"}
Chars == {"F", ",", " "}
PAD == <<"<PAD/>">>
VocabWords == {<<"f">>, <<",">>, PAD}

RawSentences == UNION {[1..n -> Chars] : n \in 0..MaxSentenceLen}

\* Injective sequences over VocabWords: the candidate vocabulary_inv lists.
VocabularyInvs ==
    UNION {{s \in [1..n -> VocabWords] :
                \A i, j \in 1..n : i # j => s[i] # s[j]} :
           n \in 0..Cardinality(VocabWords)}

\* vocabulary = {x: i for i, x in enumerate(vocabulary_inv)}
build_vocab(inv) ==
    [w \in {inv[i] : i \in DOMAIN inv} |->
        (CHOOSE i \in DOMAIN inv : inv[i] = w) - 1]

Probabilities == 0..(2 * ProbRes)

\* ------------------------------------------------------- random generator
SeedState(seed) == seed % RngMod

rng_next(s) == (5 * s + 3) % RngMod

RECURSIVE rng_skip(_, _)
rng_skip(s, k) == IF k <= 0 THEN s ELSE rng_skip(rng_next(s), k - 1)

Swap(seq, i, j) == [seq EXCEPT ![i] = seq[j], ![j] = seq[i]]

\* Fisher-Yates from the top, one draw per position.
RECURSIVE shuffle(_, _, _)
shuffle(seq, i, s) ==
    IF i <= 1 THEN seq
    ELSE LET s1 == rng_next(s)
             j == (s1 % i) + 1
         IN shuffle(Swap(seq, i, j), i - 1, s1)

\* np.random.permutation(np.arange(n)) from generator state s
permutation(s, n) == shuffle([i \in 1..n |-> i - 1], n, s)

\* ------------------------------------------------------------ clean_str
Lower(c) == IF c = "F" THEN "f" ELSE c

\* "," -> " , "
RECURSIVE SpacePunct(_)
SpacePunct(s) ==
    IF s = <<>> THEN <<>>
    ELSE IF Head(s) = "," THEN <<" ", ",", " ">> \o SpacePunct(Tail(s))
    ELSE <<Head(s)>> \o SpacePunct(Tail(s))

\* runs of blanks -> one blank
RECURSIVE Collapse(_)
Collapse(s) ==
    IF Len(s) < 2 THEN s
    ELSE IF Head(s) = " " /\ s[2] = " " THEN Collapse(Tail(s))
    ELSE <<Head(s)>> \o Collapse(Tail(s))

RECURSIVE Strip(_)
Strip(s) ==
    IF s = <<>> THEN s
    ELSE IF Head(s) = " " THEN Strip(Tail(s))
    ELSE IF s[Len(s)] = " " THEN Strip(SubSeq(s, 1, Len(s) - 1))
    ELSE s

LowerAll(s) == [i \in DOMAIN s |-> Lower(s[i])]

\* punctuation set apart, blanks collapsed, .strip().lower()
clean_str(s) == LowerAll(Strip(Collapse(SpacePunct(s))))

\* str.split(" "): one token per blank-separated field, empty fields kept.
RECURSIVE split(_, _)
split(s, cur) ==
    IF s = <<>> THEN <<cur>>
    ELSE IF Head(s) = " " THEN <<cur>> \o split(Tail(s), <<>>)
    ELSE split(Tail(s), Append(cur, Head(s)))

\* ------------------------------------------------------ format_sentence
tokenize(s) == split(clean_str(s), <<>>)

NumPaddingShort(n_tokens) == sequence_length - n_tokens - 1

NumPaddingAbs(n_tokens) ==
    IF n_tokens > sequence_length THEN n_tokens - sequence_length
    ELSE sequence_length - n_tokens

\* num_padding = sequence_length - len(processed_sentence)
num_padding(n_tokens) == sequence_length - n_tokens

\* [x] * k: the empty list when k <= 0
ListRepeat(x, k) == [i \in 1..k |-> x]

pad_sentence(tokens) == tokens \o ListRepeat(PAD, num_padding(Len(tokens)))

LookupDefault(vocab, word) ==
    [raised |-> FALSE,
     index |-> IF word \in DOMAIN vocab THEN vocab[word] ELSE 0]

\* vocabulary[word]: a dict subscript, KeyError on a missing key
vocabulary_lookup(vocab, word) ==
    IF word \in DOMAIN vocab
    THEN [raised |-> FALSE, index |-> vocab[word]]
    ELSE [raised |-> TRUE, index |-> 0]

\* the list comprehension of line 171 raises iff some lookup raises
LookupRaises(vocab, words) ==
    \E i \in DOMAIN words : vocabulary_lookup(vocab, words[i]).raised

\* np.hstack([...]).reshape(1, -1): one row of indices
IndexBatch(vocab, words) ==
    <<[i \in DOMAIN words |-> vocabulary_lookup(vocab, words[i]).index]>>

\* ------------------------------------------------------------- dispatch
DispatchRandFallback(mv) ==
    IF mv \in {"CNN-non-static", "CNN-static"} THEN "word2vec" ELSE "rand"

\* lines 94-101
Dispatch(mv) ==
    IF mv = "CNN-non-static" \/ mv = "CNN-static" THEN "word2vec"
    ELSE IF mv = "CNN-rand" THEN "rand"
    ELSE "ValueError"

\* ------------------------------------------------------- train or load
LoadsIfMissing(act, exists) == act = "predict" /\ ~exists

LoadsIfPresent(act, exists) == exists

\* line 150
LoadsWeights(act, exists) == act = "predict" /\ exists

TrainCallsNoSave == <<"fit">>

\* lines 153-156
TrainCalls == <<"fit", "save_weights">>

\* ------------------------------------------------------------ threshold
MoodStrict(p) == IF p <= ProbRes THEN "Negative" ELSE "Positive"

\* line 180: "Negative" if probs < 0.5 else "Positive"
Mood(p) == IF p < ProbRes THEN "Negative" ELSE "Positive"

\* -------------------------------------------------------------- helpers
Raise(kind) == pc' = "error" /\ error' = kind

\* ------------------------------------------------------------------ Init
Init ==
    /\ pc = "seed"
    /\ model_variation \in Variations
    /\ action \in Actions
    /\ weights_exists \in BOOLEAN
    /\ weights_at_startup = weights_exists
    /\ w2v_cached \in BOOLEAN
    /\ rng \in 0..(RngMod - 1)
    /\ vocabulary = <<>>
    /\ n_samples = 0
    /\ x_repr = "none"
    /\ shuffle_indices = <<>>
    /\ model_input = "none"
    /\ model_weights = "none"
    /\ sentence = <<>>
    /\ processed_sentence = <<>>
    /\ new_sentence = <<>>
    /\ v_list = <<>>
    /\ probs = <<>>
    /\ mood = "none"
    /\ error = "none"
    /\ events = <<>>

\* --------------------------------------------------------------- actions
SeedNoop == rng

\* line 55: np.random.seed(2)
SeedValue == SeedState(random_seed)

Seed ==
    /\ pc = "seed"
    /\ rng' = SeedValue
    /\ pc' = "load_data"
    /\ UNCHANGED <<weights_at_startup, model_variation, action, weights_exists, w2v_cached,
                   vocabulary, n_samples, x_repr, shuffle_indices,
                   model_input, model_weights, sentence, processed_sentence, new_sentence,
                   v_list, probs, mood, error, events>>

\* line 92: x, y, vocabulary, vocabulary_inv = data_helpers.load_data()
LoadData ==
    /\ pc = "load_data"
    /\ \E inv \in VocabularyInvs : vocabulary' = build_vocab(inv)
    /\ n_samples' \in 2..MaxSamples
    /\ x_repr' = "indices"
    /\ pc' = "dispatch"
    /\ UNCHANGED <<weights_at_startup, model_variation, action, weights_exists, w2v_cached, rng,
                   shuffle_indices, model_input, model_weights, sentence,
                   processed_sentence, new_sentence, v_list, probs, mood, error, events>>

\* train_word2vec: loads the cached model or trains and saves it
train_word2vec_event == IF w2v_cached THEN "word2vec_load" ELSE "word2vec_train"

\* lines 94-101
DispatchVariation ==
    /\ pc = "dispatch"
    /\ \/ /\ Dispatch(model_variation) = "word2vec"
          /\ events' = Append(events, train_word2vec_event)
          /\ w2v_cached' = TRUE
          /\ x_repr' = IF model_variation = "CNN-static"
                       THEN "vectors" ELSE x_repr
          /\ pc' = "shuffle"
          /\ UNCHANGED error
       \/ /\ Dispatch(model_variation) = "rand"
          /\ pc' = "shuffle"
          /\ UNCHANGED <<events, w2v_cached, x_repr, error>>
       \/ /\ Dispatch(model_variation) = "ValueError"
          /\ Raise("ValueError")
          /\ UNCHANGED <<events, w2v_cached, x_repr>>
    /\ UNCHANGED <<weights_at_startup, model_variation, action, weights_exists, rng, vocabulary,
                   n_samples, shuffle_indices, model_input, model_weights,
                   sentence, processed_sentence, new_sentence, v_list, probs, mood>>

\* lines 104-106
Shuffle ==
    /\ pc = "shuffle"
    /\ shuffle_indices' = permutation(rng, n_samples)
    /\ rng' = rng_skip(rng, n_samples - 1)
    /\ events' = Append(events, "permutation")
    /\ pc' = "build"
    /\ UNCHANGED <<weights_at_startup, model_variation, action, weights_exists, w2v_cached,
                   vocabulary, n_samples, x_repr, model_input, model_weights,
                   sentence, processed_sentence, new_sentence, v_list, probs, mood, error>>

\* lines 135-139: the Embedding layer is added unless CNN-static
ModelInput(mv) == IF mv # "CNN-static" THEN "indices" ELSE "vectors"

\* lines 115-147
BuildModel ==
    /\ pc = "build"
    /\ model_input' = ModelInput(model_variation)
    /\ model_weights' = "initial"
    /\ events' = Append(events, "compile")
    /\ pc' = "train_or_load"
    /\ UNCHANGED <<weights_at_startup, model_variation, action, weights_exists, w2v_cached, rng,
                   vocabulary, n_samples, x_repr, shuffle_indices, sentence,
                   processed_sentence, new_sentence, v_list, probs, mood, error>>

\* lines 150-156
TrainOrLoad ==
    /\ pc = "train_or_load"
    /\ \/ /\ LoadsWeights(action, weights_exists)
          /\ events' = Append(events, "load_weights")
          /\ model_weights' = "loaded"
          /\ pc' = "predict_or_exit"
          /\ UNCHANGED <<weights_exists, error>>
       \/ /\ ~LoadsWeights(action, weights_exists)
          /\ events' = events \o TrainCalls
          /\ model_weights' = "trained"
          /\ weights_exists' =
                (weights_exists \/ \E i \in DOMAIN TrainCalls :
                                        TrainCalls[i] = "save_weights")
          /\ pc' = "predict_or_exit"
          /\ UNCHANGED error
    /\ UNCHANGED <<weights_at_startup, model_variation, action, w2v_cached, rng, vocabulary,
                   n_samples, x_repr, shuffle_indices, model_input, sentence,
                   processed_sentence, new_sentence, v_list, probs, mood>>

\* lines 159-173 called from line 177
FormatSentence ==
    /\ pc = "predict_or_exit"
    /\ action = "predict"
    /\ \E s \in RawSentences :
        LET tokens == tokenize(s)
            padded == pad_sentence(tokens)
        IN /\ sentence' = s
           /\ processed_sentence' = tokens
           /\ new_sentence' = padded
           /\ events' = Append(events, "format_sentence")
           /\ IF LookupRaises(vocabulary, padded)
              THEN /\ Raise("KeyError")
                   /\ UNCHANGED v_list
              ELSE /\ v_list' = IndexBatch(vocabulary, padded)
                   /\ pc' = "predict"
                   /\ UNCHANGED error
    /\ UNCHANGED <<weights_at_startup, model_variation, action, weights_exists, w2v_cached, rng,
                   vocabulary, n_samples, x_repr, shuffle_indices,
                   model_input, model_weights, probs, mood>>

\* line 176 with action other than "predict": the script ends
Exit ==
    /\ pc = "predict_or_exit"
    /\ action # "predict"
    /\ pc' = "done"
    /\ UNCHANGED <<weights_at_startup, model_variation, action, weights_exists, w2v_cached, rng,
                   vocabulary, n_samples, x_repr, shuffle_indices,
                   model_input, model_weights, sentence, processed_sentence, new_sentence,
                   v_list, probs, mood, error, events>>

\* what line 178 hands to the model: format_sentence's index row, as is
PredictInput == "indices"

\* the framework accepts an input of the shape the model was built for
InputAccepted ==
    /\ PredictInput = model_input
    /\ Len(v_list[1]) = sequence_length

\* line 178: probs = model.predict(v_list)
Predict ==
    /\ pc = "predict"
    /\ events' = Append(events, "predict")
    /\ \/ /\ InputAccepted
          /\ \E p \in Probabilities : probs' = <<p>>
          /\ pc' = "classify"
          /\ UNCHANGED error
       \/ /\ ~InputAccepted
          /\ Raise("ShapeError")
          /\ UNCHANGED probs
    /\ UNCHANGED <<weights_at_startup, model_variation, action, weights_exists, w2v_cached, rng,
                   vocabulary, n_samples, x_repr, shuffle_indices,
                   model_input, model_weights, sentence, processed_sentence, new_sentence,
                   v_list, mood>>

\* lines 180-181
Classify ==
    /\ pc = "classify"
    /\ mood' = Mood(probs[1])
    /\ events' = Append(events, "print_mood")
    /\ pc' = "done"
    /\ UNCHANGED <<weights_at_startup, model_variation, action, weights_exists, w2v_cached, rng,
                   vocabulary, n_samples, x_repr, shuffle_indices,
                   model_input, model_weights, sentence, processed_sentence, new_sentence,
                   v_list, probs, error>>

Next ==
    \/ Seed
    \/ LoadData
    \/ DispatchVariation
    \/ Shuffle
    \/ BuildModel
    \/ TrainOrLoad
    \/ FormatSentence
    \/ Exit
    \/ Predict
    \/ Classify

Spec == Init /\ [][Next]_vars

\* ================================================================ claims
Has(e) == \E i \in DOMAIN events : events[i] = e

Before(a, b) ==
    \E i, j \in DOMAIN events : i < j /\ events[i] = a /\ events[j] = b

\* positions after the train-or-load step has run
PastTrainOrLoad == pc \in {"predict_or_exit", "predict", "classify", "done"}
                   \/ (pc = "error" /\ error \in {"KeyError", "ShapeError"})

Tokens == processed_sentence

Formatted == Has("format_sentence")

Returned == Formatted /\ error # "KeyError"

\* C1: when the weights file exists as the driver reaches the train-or-load
\* step and the action is "predict", the weights are loaded from the file,
\* model.fit is never executed and the weights file is not written.
C1_PredictWithWeightsNeverTrains ==
    /\ pc = "train_or_load" => weights_exists = weights_at_startup
    /\ (action = "predict" /\ weights_at_startup) =>
          /\ ~Has("fit")
          /\ ~Has("save_weights")
          /\ model_weights # "trained"
          /\ weights_exists
          /\ PastTrainOrLoad =>
                Has("load_weights") /\ model_weights = "loaded"

C1_Witness ==
    /\ action = "predict"
    /\ weights_at_startup
    /\ pc = "done"
    /\ Has("load_weights")
    /\ Has("predict")

\* C2 (as stated): whenever the weights file is present at startup the
\* weights are loaded and training is skipped, for every action.
C2_PresenceAloneDecides ==
    (weights_at_startup /\ PastTrainOrLoad) =>
        Has("load_weights") /\ ~Has("fit")

\* C2 (amended): the weights are loaded and training is skipped exactly when
\* the file is present at startup and the action is "predict"; in every
\* other case, a present file with another action included, training runs
\* and the file is written.
C2_PresenceAndActionDecide ==
    PastTrainOrLoad =>
        /\ Has("load_weights") <=> (weights_at_startup /\ action = "predict")
        /\ Has("fit") <=> ~(weights_at_startup /\ action = "predict")
        /\ Has("save_weights") <=> Has("fit")
        /\ ~(Has("load_weights") /\ Has("fit"))

C2_Witness ==
    /\ weights_at_startup
    /\ action = "train"
    /\ pc = "done"
    /\ Has("fit")
    /\ Has("save_weights")
    /\ ~Has("load_weights")

\* C3: model.predict is executed only after the weights were loaded from the
\* file, or after training ran and the weights were then written to the file;
\* with action "predict" and no weights file the order is fit, save_weights,
\* predict.
C3_PredictOnlyWhenLoaded ==
    /\ Has("predict") =>
          \/ /\ Before("load_weights", "predict")
             /\ model_weights = "loaded"
             /\ ~Has("fit")
          \/ /\ Before("fit", "save_weights")
             /\ Before("save_weights", "predict")
             /\ model_weights = "trained"
             /\ weights_exists
    /\ (Has("predict") /\ ~weights_at_startup) =>
          /\ action = "predict"
          /\ Before("fit", "save_weights")
          /\ Before("save_weights", "predict")
          /\ ~Before("predict", "fit")
          /\ ~Before("predict", "save_weights")

C3_Witness ==
    /\ action = "predict"
    /\ ~weights_at_startup
    /\ Has("predict")
    /\ Before("fit", "save_weights")
    /\ pc = "done"

\* C4: for a sentence with fewer cleaned tokens than sequence_length, the
\* padded sentence is the tokens followed by padding tokens up to exactly
\* sequence_length, and format_sentence returns one row of exactly
\* sequence_length vocabulary indices, those of the padded sentence.
C4_ShortSentencePaddedToLength ==
    (Formatted /\ Len(Tokens) < sequence_length) =>
        /\ Len(new_sentence) = sequence_length
        /\ \A i \in 1..sequence_length :
              new_sentence[i] = IF i <= Len(Tokens) THEN Tokens[i] ELSE PAD
        /\ Returned =>
              /\ Len(v_list) = 1
              /\ Len(v_list[1]) = sequence_length
              /\ \A i \in 1..sequence_length :
                    /\ new_sentence[i] \in DOMAIN vocabulary
                    /\ v_list[1][i] = vocabulary[new_sentence[i]]

C4_Witness ==
    /\ Returned
    /\ Len(Tokens) < sequence_length
    /\ Tokens[1] # <<>>
    /\ Len(v_list[1]) = sequence_length
    /\ v_list[1][sequence_length] = vocabulary[PAD]

\* C5: if a token of the cleaned, padded sentence (the padding token
\* included) is not in the vocabulary, the prediction step fails with a
\* lookup error: no index is substituted, the model is not invoked and no
\* classification is printed.
C5_UnknownTokenIsFatal ==
    (Formatted /\ \E i \in DOMAIN new_sentence :
                      new_sentence[i] \notin DOMAIN vocabulary) =>
        /\ pc = "error"
        /\ error = "KeyError"
        /\ v_list = <<>>
        /\ probs = <<>>
        /\ mood = "none"
        /\ ~Has("predict")
        /\ ~Has("print_mood")

C5_Witness ==
    /\ Formatted
    /\ error = "KeyError"
    /\ PAD \notin DOMAIN vocabulary
    /\ \A i \in DOMAIN Tokens : Tokens[i] \in DOMAIN vocabulary
    /\ \E i \in DOMAIN new_sentence : new_sentence[i] = PAD

\* C6: the printed classification is "Positive" exactly when the output
\* probability is >= 0.5 and "Negative" exactly when it is < 0.5; 0.5 itself
\* is classified Positive.
C6_ThresholdAtHalf ==
    /\ mood # "none" =>
          /\ probs # <<>>
          /\ mood = "Positive" <=> probs[1] >= ProbRes
          /\ mood = "Negative" <=> probs[1] < ProbRes
    /\ (pc = "done" /\ probs # <<>>) => mood # "none"

C6_Witness ==
    /\ pc = "done"
    /\ probs = <<ProbRes>>
    /\ mood = "Positive"

\* C7: with a model_variation other than the three known ones the run ends
\* in an error at the dispatch: no embedding training, no shuffle, no model,
\* no training, no weights load or write and no prediction happen.
C7_UnknownVariationAborts ==
    model_variation \notin {"CNN-rand", "CNN-non-static", "CNN-static"} =>
        /\ pc \in {"seed", "load_data", "dispatch", "error"}
        /\ pc = "error" => error = "ValueError"
        /\ events = <<>>
        /\ shuffle_indices = <<>>
        /\ model_input = "none"
        /\ model_weights = "none"
        /\ weights_exists = weights_at_startup
        /\ v_list = <<>>
        /\ probs = <<>>
        /\ mood = "none"

C7_Witness ==
    /\ model_variation \notin {"CNN-rand", "CNN-non-static", "CNN-static"}
    /\ pc = "error"
    /\ error = "ValueError"

C9_PredictInputMatchesModel ==
    Has("predict") => (PredictInput = model_input /\ PredictInput = x_repr)

\* C10: for a sentence with at least sequence_length cleaned tokens no
\* padding is added and nothing is cut: format_sentence returns one index
\* per token, so more than sequence_length of them for a longer sentence.
C10_LongSentenceKeptWhole ==
    (Formatted /\ Len(Tokens) >= sequence_length) =>
        /\ new_sentence = Tokens
        /\ Returned =>
              /\ Len(v_list) = 1
              /\ Len(v_list[1]) = Len(Tokens)
              /\ \A i \in DOMAIN Tokens :
                    /\ Tokens[i] \in DOMAIN vocabulary
                    /\ v_list[1][i] = vocabulary[Tokens[i]]
              /\ Len(Tokens) > sequence_length =>
                    Len(v_list[1]) > sequence_length

C10_Witness ==
    /\ Returned
    /\ Len(Tokens) > sequence_length
    /\ Len(v_list[1]) = Len(Tokens)

====
